---- MODULE Spec2Model ----
(***************************************************************************)
(* Model of telegram_fetcher.py: fetch_recent_messages (the aggregation    *)
(* loop over the dialogs, the stable sort by date and the slice),          *)
(* serialize_message_to_dict (sender and chat type resolution) and the     *)
(* part of amain that maps the outcome to an exit code and an output.      *)
(*                                                                         *)
(* A dialog's history, newest first, is `pad` outgoing messages followed   *)
(* by `tail`; the transport's get_messages returns a prefix of it.         *)
(* Python strings are sequences of one-character strings.  A sender        *)
(* attribute that is None and one that is "" are both the empty sequence:  *)
(* the code only tests their truth value.                                  *)
(***************************************************************************)
EXTENDS Integers, Sequences, FiniteSets, TLC

VARIABLES message_type, limit, dialogs, i, messages, fetched, pc, result,
          output, exit_code, failure

vars == <<message_type, limit, dialogs, i, messages, fetched, pc, result,
          output, exit_code, failure>>

----------------------------------------------------------------------------
(* Bounds of the explored inputs *)

NumSources == 2

MaxTail == 1

MaxDate == 2

MaxLimit == 2

MaxNameLen == 2

(* max(limit, 20), line 24 *)
FetchFloor == 20

----------------------------------------------------------------------------
(* Input domains *)

MessageTypes == {"private", "channel", "all"}

Chars == {" ", "a"}

Strings == UNION {[1..n -> Chars] : n \in 0..MaxNameLen}

NoSender == [exists |-> FALSE, first_name |-> <<>>, last_name |-> <<>>,
             username |-> <<>>, title |-> <<>>]

Senders ==
    {NoSender} \cup
    {[exists |-> TRUE, first_name |-> f, last_name |-> l, username |-> u,
      title |-> t] : f \in Strings, l \in Strings, u \in Strings, t \in Strings}

(* The entities Telethon hands out: a user, a bot, a basic group, a        *)
(* megagroup (a channel entity that is also a group), a broadcast channel. *)
DialogKinds ==
    {[is_user |-> TRUE,  is_group |-> FALSE, is_channel |-> FALSE, bot |-> FALSE],
     [is_user |-> TRUE,  is_group |-> FALSE, is_channel |-> FALSE, bot |-> TRUE],
     [is_user |-> FALSE, is_group |-> TRUE,  is_channel |-> FALSE, bot |-> FALSE],
     [is_user |-> FALSE, is_group |-> TRUE,  is_channel |-> TRUE,  bot |-> FALSE],
     [is_user |-> FALSE, is_group |-> FALSE, is_channel |-> TRUE,  bot |-> FALSE]}

UserKind == [is_user |-> TRUE, is_group |-> FALSE, is_channel |-> FALSE, bot |-> FALSE]

TailEntry(d, s) == [date |-> d, out |-> FALSE, sender |-> s]

(* Tails of incoming messages, newest first: dates never increase. *)
Tails ==
    UNION {{[k \in 1..n |-> TailEntry(f[k], NoSender)] :
              f \in {g \in [1..n -> 1..MaxDate] :
                        \A k \in 1..n : k < n => g[k] >= g[k + 1]}} :
           n \in 0..MaxTail}

Pads == {0, 1, FetchFloor}

MkDialog(e, kind, pad, tail) ==
    [entity |-> e, is_user |-> kind.is_user, is_group |-> kind.is_group,
     is_channel |-> kind.is_channel, bot |-> kind.bot, pad |-> pad, tail |-> tail]

----------------------------------------------------------------------------
(* The transport *)

Min(a, b) == IF a <= b THEN a ELSE b

Max(a, b) == IF a >= b THEN a ELSE b

(* The whole history of a dialog, newest first, as Message objects.  The   *)
(* chat flags of a message are those of the dialog it belongs to.          *)
History(d) ==
    LET n == d.pad + Len(d.tail) IN
    [p \in 1..n |->
        [chat |-> d.entity, id |-> n - p + 1,
         date |-> IF p <= d.pad THEN MaxDate ELSE d.tail[p - d.pad].date,
         out |-> IF p <= d.pad THEN TRUE ELSE d.tail[p - d.pad].out,
         sender |-> IF p <= d.pad THEN NoSender ELSE d.tail[p - d.pad].sender,
         is_private |-> d.is_user, is_group |-> d.is_group,
         is_channel |-> d.is_channel]]

(* client.get_messages(entity, limit=n): the n newest, or all if fewer *)
get_messages(d, n) == SubSeq(History(d), 1, Min(n, Len(History(d))))

----------------------------------------------------------------------------
(* fetch_recent_messages *)

(* the budget without its floor of 20 *)
FetchLimitNoFloor(lim) == lim

fetch_limit_per_dialog(lim) == Max(lim, FetchFloor)

(* the "private" filter without its bot test *)
AdmitsBots(mt, d) ==
    IF mt = "private" THEN d.is_user
    ELSE IF mt = "channel" THEN d.is_channel
    ELSE TRUE

(* lines 28-33: TRUE when the dialog is not skipped by `continue` *)
Admits(mt, d) ==
    IF mt = "private" THEN ~(~d.is_user \/ d.bot)
    ELSE IF mt = "channel" THEN d.is_channel
    ELSE TRUE

(* the comprehension without its condition *)
KeepAll(s) == s

(* line 39: m for m in dialog_messages if not m.out *)
NotOut(s) == SelectSeq(s, LAMBDA m : ~m.out)

(* lines 37-39: what one admitted dialog appends to `messages` *)
DialogMessages(d, lim) == NotOut(get_messages(d, fetch_limit_per_dialog(lim)))

(* lines 28-39: the loop body for one dialog *)
Extend(acc, mt, lim, d) ==
    IF Admits(mt, d) THEN acc \o DialogMessages(d, lim) ELSE acc

(* list.sort(key=date, reverse=True) is stable: a message goes after every *)
(* message already placed whose date is not older.                         *)
InsertByDate(s, m) ==
    LET k == Cardinality({j \in 1..Len(s) : s[j].date >= m.date}) IN
    SubSeq(s, 1, k) \o <<m>> \o SubSeq(s, k + 1, Len(s))

(* the sort without reverse=True *)
InsertByDateAscending(s, m) ==
    LET k == Cardinality({j \in 1..Len(s) : s[j].date <= m.date}) IN
    SubSeq(s, 1, k) \o <<m>> \o SubSeq(s, k + 1, Len(s))

RECURSIVE SortOldestFirst(_)
SortOldestFirst(s) ==
    IF s = <<>> THEN <<>>
    ELSE InsertByDateAscending(SortOldestFirst(SubSeq(s, 1, Len(s) - 1)), s[Len(s)])

(* no sort at all: the messages stay in arrival order *)
ArrivalOrder(s) == s

RECURSIVE SortNewestFirst(_)
SortNewestFirst(s) ==
    IF s = <<>> THEN <<>>
    ELSE InsertByDate(SortNewestFirst(SubSeq(s, 1, Len(s) - 1)), s[Len(s)])

(* the return without its slice *)
WholeList(s, lim) == s

(* messages[:limit] with Python's meaning of a negative stop *)
Slice(s, lim) ==
    IF lim >= 0 THEN SubSeq(s, 1, Min(lim, Len(s)))
    ELSE SubSeq(s, 1, Max(Len(s) + lim, 0))

(* lines 26-39 over a whole enumeration ds, with no failure *)
RECURSIVE Collect(_, _, _)
Collect(ds, mt, lim) ==
    IF ds = <<>> THEN <<>>
    ELSE Extend(Collect(SubSeq(ds, 1, Len(ds) - 1), mt, lim), mt, lim, ds[Len(ds)])

(* lines 14-45: the value returned for the enumeration ds *)
fetch_recent_messages(ds, mt, lim) == Slice(SortNewestFirst(Collect(ds, mt, lim)), lim)

----------------------------------------------------------------------------
(* serialize_message_to_dict *)

IsSpace(c) == c = " "

RECURSIVE LStrip(_)
LStrip(s) == IF s # <<>> /\ IsSpace(s[1]) THEN LStrip(Tail(s)) ELSE s

RECURSIVE RStrip(_)
RStrip(s) ==
    IF s # <<>> /\ IsSpace(s[Len(s)]) THEN RStrip(SubSeq(s, 1, Len(s) - 1)) ELSE s

Strip(s) == RStrip(LStrip(s))

Unknown == <<"U", "n", "k", "n", "o", "w", "n">>

(* lines 53-62 *)
SenderName(m) ==
    IF ~m.sender.exists THEN Unknown
    ELSE IF m.sender.first_name # <<>>
         THEN IF m.sender.last_name # <<>>
              THEN m.sender.first_name \o <<" ">> \o m.sender.last_name
              ELSE m.sender.first_name
    ELSE IF m.sender.username # <<>> THEN <<"@">> \o m.sender.username
    ELSE IF m.sender.title # <<>> THEN m.sender.title
    ELSE Unknown

(* lines 75-81 *)
ChatType(m) ==
    IF m.is_private THEN "private"
    ELSE IF m.is_group THEN "group"
    ELSE IF m.is_channel THEN "channel"
    ELSE "unknown"

(* lines 83-90; content, date and sender_id are not modelled *)
serialize_message_to_dict(m) ==
    [sender |-> Strip(SenderName(m)), chat_type |-> ChatType(m),
     message_id |-> m.id, chat |-> m.chat]

----------------------------------------------------------------------------
(* Initial states: the arguments and the account's dialogs *)

InitRun ==
    /\ i = 0
    /\ messages = <<>>
    /\ fetched = [k \in 1..Len(dialogs) |-> 0]
    /\ pc = "iter"
    /\ result = <<>>
    /\ output = <<>>
    /\ exit_code = -1
    /\ failure = "none"

(* Every kind of dialog, short histories, every limit from -1 up *)
FilterHistories ==
    {<<0, <<>>>>, <<0, <<TailEntry(1, NoSender)>>>>, <<1, <<TailEntry(1, NoSender)>>>>}

Init ==
    /\ message_type \in MessageTypes
    /\ limit \in -1..MaxLimit
    /\ \E kd \in [1..NumSources -> DialogKinds], h \in [1..NumSources -> FilterHistories] :
          dialogs = [k \in 1..NumSources |-> MkDialog(k, kd[k], h[k][1], h[k][2])]
    /\ InitRun

(* Dialogs that every filter but "channel" admits, every history, limit > 0 *)
InitTopK ==
    /\ message_type = "all"
    /\ limit \in 1..MaxLimit
    /\ \E p \in [1..NumSources -> Pads], t \in [1..NumSources -> Tails] :
          dialogs = [k \in 1..NumSources |-> MkDialog(k, UserKind, p[k], t[k])]
    /\ InitRun

(* One dialog holding one incoming message, every sender *)
InitNorm ==
    /\ message_type = "all"
    /\ limit = 1
    /\ \E s \in Senders :
          dialogs = <<MkDialog(1, UserKind, 0, <<TailEntry(1, s)>>)>>
    /\ InitRun

----------------------------------------------------------------------------
(* Actions *)

(* lines 26-39: iter_dialogs yields the next dialog and the body runs *)
IterDialog ==
    /\ pc = "iter"
    /\ i < Len(dialogs)
    /\ i' = i + 1
    /\ messages' = Extend(messages, message_type, limit, dialogs[i + 1])
    /\ fetched' = [fetched EXCEPT ![i + 1] =
                      IF Admits(message_type, dialogs[i + 1]) THEN @ + 1 ELSE @]
    /\ UNCHANGED <<message_type, limit, dialogs, pc, result, output, exit_code, failure>>

(* line 26 raises; amain's handler (lines 140-142) returns 1 *)
IterDialogsRaises ==
    /\ pc = "iter"
    /\ pc' = "exit"
    /\ exit_code' = 1
    /\ failure' = "enumeration"
    /\ UNCHANGED <<message_type, limit, dialogs, i, messages, fetched, result, output>>

(* a loop body that catches the exception of line 37 and goes on *)
GetMessagesRaisesAndContinues ==
    /\ pc = "iter"
    /\ i < Len(dialogs)
    /\ Admits(message_type, dialogs[i + 1])
    /\ i' = i + 1
    /\ fetched' = [fetched EXCEPT ![i + 1] = @ + 1]
    /\ failure' = "fetch"
    /\ UNCHANGED <<message_type, limit, dialogs, messages, pc, result, output, exit_code>>

(* line 37 raises for the next dialog; nothing in fetch_recent_messages    *)
(* catches it, amain's handler (lines 140-142) returns 1                   *)
GetMessagesRaises ==
    /\ pc = "iter"
    /\ i < Len(dialogs)
    /\ Admits(message_type, dialogs[i + 1])
    /\ i' = i + 1
    /\ fetched' = [fetched EXCEPT ![i + 1] = @ + 1]
    /\ pc' = "exit"
    /\ exit_code' = 1
    /\ failure' = "fetch"
    /\ UNCHANGED <<message_type, limit, dialogs, messages, result, output>>

(* lines 41-45, after the loop has consumed every dialog *)
SortAndReturn ==
    /\ pc = "iter"
    /\ i = Len(dialogs)
    /\ result' = Slice(SortNewestFirst(messages), limit)
    /\ pc' = "returned"
    /\ UNCHANGED <<message_type, limit, dialogs, i, messages, fetched, output,
                   exit_code, failure>>

(* lines 125-144: "[]" or the serialized messages, exit code 0 *)
AmainOutput ==
    /\ pc = "returned"
    /\ output' = [k \in 1..Len(result) |-> serialize_message_to_dict(result[k])]
    /\ exit_code' = 0
    /\ pc' = "exit"
    /\ UNCHANGED <<message_type, limit, dialogs, i, messages, fetched, result, failure>>

Next ==
    \/ IterDialog
    \/ IterDialogsRaises
    \/ GetMessagesRaises
    \/ SortAndReturn
    \/ AmainOutput

Spec == Init /\ [][Next]_vars

SpecTopK == InitTopK /\ [][Next]_vars

SpecNorm == InitNorm /\ [][Next]_vars

----------------------------------------------------------------------------
(* Properties *)

Range(s) == {s[k] : k \in 1..Len(s)}

Completed == pc = "exit" /\ exit_code = 0

Returned == pc = "returned" \/ Completed

(* C1: for a positive limit the returned sequence, and the output made of  *)
(* it, is never longer than limit, whatever the requested category.        *)
C1_LengthAtMostLimit ==
    (Returned /\ limit > 0) => (Len(result) <= limit /\ Len(output) <= limit)

C1_Witness ==
    /\ Completed
    /\ limit > 0
    /\ Len(messages) > limit
    /\ Len(output) = limit

(* C2: the returned sequence is sorted by date, newest first: no element   *)
(* is older than its successor.                                            *)
C2_SortedNewestFirst ==
    Returned => \A k \in 1..Len(result) - 1 : result[k].date >= result[k + 1].date

C2_Witness ==
    /\ Returned
    /\ \E k \in 1..Len(messages) - 1 : messages[k].date < messages[k + 1].date
    /\ Len(result) >= 2
    /\ result[1].date > result[Len(result)].date

(* C3: when the filter is not "all", every output record's chat_type is    *)
(* the filter (stated here for the positive limits); when it is "all",     *)
(* every enumerated dialog is fetched.                                     *)
C3_CategoryMatchesFilter ==
    /\ (Completed /\ message_type # "all" /\ limit > 0) =>
          \A k \in 1..Len(output) : output[k].chat_type = message_type
    /\ (message_type = "all" /\ failure = "none") =>
          \A k \in 1..i : fetched[k] = 1

(* C4: no outgoing message is collected or returned, and every incoming    *)
(* message fetched from an admitted dialog is collected.                   *)
C4_OnlyIncoming ==
    /\ \A k \in 1..Len(messages) : ~messages[k].out
    /\ \A k \in 1..Len(result) : ~result[k].out
    /\ failure = "none" =>
          \A k \in 1..i :
             Admits(message_type, dialogs[k]) =>
                \A m \in Range(get_messages(dialogs[k], Max(limit, FetchFloor))) :
                   ~m.out => m \in Range(messages)

C4_Witness ==
    /\ Completed
    /\ output # <<>>
    /\ \E k \in 1..Len(dialogs) :
          /\ Admits(message_type, dialogs[k])
          /\ dialogs[k].pad >= 1
          /\ dialogs[k].tail # <<>>
          /\ \E j \in 1..Len(output) : output[j].chat = k

(* C5: for a limit of zero or less the run completes with an empty         *)
(* sequence.                                                               *)
C5_NonPositiveLimitGivesEmpty ==
    (limit <= 0 /\ failure = "none") => (result = <<>> /\ output = <<>>)

(* C6 as stated: a failure of one dialog's get_messages does not make the  *)
(* run fail.                                                               *)
C6_FetchFailureDoesNotAbort ==
    failure = "fetch" => ~(pc = "exit" /\ exit_code = 1)

(* C6 amended: a failure of get_messages or of the enumeration ends the    *)
(* run with exit code 1 and no output; without one the exit code is 0.     *)
C6_AnyFailureAbortsRun ==
    /\ failure # "none" => (pc = "exit" /\ exit_code = 1 /\ output = <<>>)
    /\ (pc = "exit" /\ failure = "none") => exit_code = 0

C6_Witness ==
    /\ failure = "fetch"
    /\ pc = "exit"
    /\ exit_code = 1
    /\ messages # <<>>
    /\ output = <<>>

(* C7: with filter "private", get_messages is issued exactly once for each *)
(* enumerated dialog that is a user and not a bot, and never for another.  *)
C7_PrivateFetchesOnlyNonBotUsers ==
    message_type = "private" =>
       \A k \in 1..Len(dialogs) :
          fetched[k] = IF k <= i /\ dialogs[k].is_user /\ ~dialogs[k].bot THEN 1 ELSE 0

C7_Witness ==
    /\ message_type = "private"
    /\ Completed
    /\ \E k \in 1..Len(dialogs) : dialogs[k].is_user /\ dialogs[k].bot /\ fetched[k] = 0
    /\ \E k \in 1..Len(dialogs) : dialogs[k].is_user /\ ~dialogs[k].bot /\ fetched[k] = 1

(* C8: the sender of every output record is a non-empty string.            *)
C8_SenderNeverEmpty ==
    \A k \in 1..Len(output) : output[k].sender # <<>>

(* r is a choice of the K most recent members of the set c *)
IsTopK(r, c, K) ==
    /\ Len(r) = Min(K, Cardinality(c))
    /\ Cardinality(Range(r)) = Len(r)
    /\ Range(r) \subseteq c
    /\ \A m \in c \ Range(r) : \A k \in 1..Len(r) : r[k].date >= m.date

IncomingOf(s) == {m \in Range(s) : ~m.out}

AdmittedDialogs == {k \in 1..Len(dialogs) : Admits(message_type, dialogs[k])}

(* C9 as stated: the returned sequence is the limit most recent incoming   *)
(* messages of the complete histories of the admitted dialogs.             *)
C9_TopKOfCompleteHistories ==
    (pc = "returned" /\ limit > 0) =>
       IsTopK(result, UNION {IncomingOf(History(dialogs[k])) : k \in AdmittedDialogs},
              limit)

(* C9 amended: the returned sequence is the limit most recent incoming     *)
(* messages among the max(limit, 20) newest messages of each admitted      *)
(* dialog.                                                                 *)
C9_TopKOfFetchedWindows ==
    (pc = "returned" /\ limit > 0) =>
       LET n == IF limit > 20 THEN limit ELSE 20 IN
       IsTopK(result,
              UNION {IncomingOf(SubSeq(History(dialogs[k]), 1,
                                       Min(n, Len(History(dialogs[k]))))) :
                     k \in AdmittedDialogs},
              limit)

C9_Witness ==
    /\ pc = "returned"
    /\ result # <<>>
    /\ Len(messages) >= limit
    /\ \E k \in AdmittedDialogs :
          dialogs[k].pad + Len(dialogs[k].tail) > Max(limit, FetchFloor)

Enumerations ==
    {[k \in 1..Len(dialogs) |-> dialogs[p[k]]] : p \in Permutations(1..Len(dialogs))}

DatesOf(s) == [k \in 1..Len(s) |-> s[k].date]

CrossDialogTie ==
    \E a \in Range(messages), b \in Range(messages) :
       a.chat # b.chat /\ a.date = b.date

(* C10 as stated: every order of enumeration of the same dialogs returns   *)
(* the same sequence.                                                      *)
C10_SameOutputForEveryOrder ==
    pc = "returned" =>
       \A ds \in Enumerations : fetch_recent_messages(ds, message_type, limit) = result

(* C10 amended: every order of enumeration returns the same dates in the   *)
(* same positions, and the same sequence when no two collected messages of *)
(* different dialogs carry the same date.                                  *)
C10_SameDatesForEveryOrder ==
    pc = "returned" =>
       \A ds \in Enumerations :
          LET r == fetch_recent_messages(ds, message_type, limit) IN
          /\ DatesOf(r) = DatesOf(result)
          /\ (r = result \/ CrossDialogTie)

C10_Witness ==
    /\ pc = "returned"
    /\ Len(messages) > limit
    /\ CrossDialogTie
    /\ \E ds \in Enumerations : fetch_recent_messages(ds, message_type, limit) # result


====
